---- MODULE Spec2Model ----
(***************************************************************************)
(* Model of the RTP gallery script (src/script.js): the time-windowed      *)
(* seeded generator (getTimeSeed, seededRandom, getSeededRandomInt,        *)
(* stringToHash, generateRandomRTP, generateRandomMultiplier) and the      *)
(* clock it reads.  Spec runs the two generators under a running clock,    *)
(* SpecSeed runs getTimeSeed alone over every kind of calendar roll-over,  *)
(* SpecPair applies getTimeSeed to two calendar minutes, SpecHash steps    *)
(* through the loop of stringToHash, and SpecRng calls seededRandom and    *)
(* getSeededRandomInt on sample seeds.                                     *)
(*                                                                         *)
(* JavaScript numbers are IEEE-754 doubles and its bit operators work on   *)
(* 32-bit integers; TLC's integers are 32-bit.  Numbers that may exceed    *)
(* 2^31-1 are therefore kept as little-endian sequences of 16-bit limbs    *)
(* ("Big", a natural number), and a 32-bit pattern is a pair <<lo, hi>> of *)
(* 16-bit halves ("word").                                                 *)
(***************************************************************************)
EXTENDS Integers, Sequences, FiniteSets, TLC

VARIABLES
    clock,    \* the local clock: the calendar fields new Date() would report
    elapsed,  \* minute boundaries the clock has crossed so far
    prev,     \* the call of generateRandomRTP / generateRandomMultiplier before cur
    cur,      \* the latest such call: its arguments, clock reading and result
    first,    \* getTimeSeed on two calendar minutes: the earlier minute,
    second,   \*   the later minute,
    seeds,    \*   and the two values returned, <<>> before the calls
    hashStr,  \* stringToHash: its argument str (UTF-16 code units),
    hashI,    \*   the loop index i,
    hashAcc,  \*   the local hash,
    hashRet,  \*   the value returned, Running before the return,
    hashPrev, \*   and the call before this one
    probe,    \* the latest direct call of seededRandom / getSeededRandomInt
    allGames,         \* script.js 37: the complete list of the games
    currentProvider,  \* script.js 36: the provider filter selected
    showAllGames,     \* script.js 35
    grid,             \* the cards in #gamesGrid, as the last render pass left them
    refreshTimers,    \* the pending timeouts of setupAutoRefresh: their due instants
    renderCount,      \* the render passes made so far
    page,             \* how far init() has come
    discovery,        \* what the last loadAllGames did
    carousel,           \* setupCarousel: "none" before it ran, then "absent" or "ready"
    currentSlide,       \* script.js 410
    totalSlides,        \* script.js 411
    dotCount,           \* script.js 403: dots.length
    autoSlideInterval,  \* script.js 412: the id kept, 0 while undefined
    activeIntervals,    \* the ids of the intervals of nextSlide the host is running
    hovering,           \* the pointer is over #carouselTrack
    touching,           \* a touch that started on the track has not ended
    touchStartX,        \* script.js 471
    touchEndX           \* script.js 472

clockVars == <<clock, elapsed, prev, cur>>
pairVars == <<first, second, seeds>>
hashVars == <<hashStr, hashI, hashAcc, hashRet, hashPrev>>
rngVars == <<probe>>
carouselVars == <<carousel, currentSlide, totalSlides, dotCount, autoSlideInterval,
                  activeIntervals, hovering, touching, touchStartX, touchEndX>>
appVars == <<allGames, currentProvider, showAllGames, grid, refreshTimers, renderCount,
             page, discovery, carouselVars>>
vars == <<clockVars, pairVars, hashVars, rngVars, appVars>>

\* ------------------------------------------------------------------------
\* Arithmetic on naturals of any size (limbs of 16 bits, least significant
\* first, no leading zero limb)
\* ------------------------------------------------------------------------
Limb == 2^16

RECURSIVE BigOfInt(_)
\* the natural n (0 <= n < 2^31) as a Big
BigOfInt(n) == IF n = 0 THEN <<>> ELSE <<n % Limb>> \o BigOfInt(n \div Limb)

RECURSIVE BigNorm(_)
BigNorm(a) ==
    IF a = <<>> THEN <<>>
    ELSE IF a[Len(a)] = 0 THEN BigNorm(SubSeq(a, 1, Len(a) - 1))
    ELSE a

RECURSIVE BigMulAdd(_, _, _)
\* a * k + c, for 0 <= k < 2^14 and 0 <= c < 2^30
BigMulAdd(a, k, c) ==
    IF a = <<>> THEN BigOfInt(c)
    ELSE LET v == Head(a) * k + c
         IN  <<v % Limb>> \o BigMulAdd(Tail(a), k, v \div Limb)

RECURSIVE BigAddC(_, _, _)
BigAddC(a, b, c) ==
    IF a = <<>> /\ b = <<>> THEN BigOfInt(c)
    ELSE LET x == IF a = <<>> THEN 0 ELSE Head(a)
             y == IF b = <<>> THEN 0 ELSE Head(b)
             v == x + y + c
         IN  <<v % Limb>> \o BigAddC(IF a = <<>> THEN a ELSE Tail(a),
                                     IF b = <<>> THEN b ELSE Tail(b),
                                     v \div Limb)

BigAdd(a, b) == BigAddC(a, b, 0)

RECURSIVE BigSubC(_, _, _)
\* a - b - c for a >= b + c (c is the borrow, 0 or 1)
BigSubC(a, b, c) ==
    IF a = <<>> THEN <<>>
    ELSE LET y == IF b = <<>> THEN 0 ELSE Head(b)
             v == Head(a) - y - c
         IN  <<v % Limb>> \o BigSubC(Tail(a),
                                     IF b = <<>> THEN b ELSE Tail(b),
                                     IF v < 0 THEN 1 ELSE 0)

BigSub(a, b) == BigNorm(BigSubC(a, b, 0))

RECURSIVE BigMod(_, _)
\* a mod m as an integer, for 0 < m < 2^22 (Horner's rule, 8 bits at a time)
BigMod(a, m) ==
    IF a = <<>> THEN 0
    ELSE LET r  == BigMod(Tail(a), m)
             r1 == (r * 256 + (Head(a) \div 256)) % m
         IN  (r1 * 256 + (Head(a) % 256)) % m

RECURSIVE BitLen(_)
\* number of bits of the integer n >= 0
BitLen(n) == IF n = 0 THEN 0 ELSE 1 + BitLen(n \div 2)

BigBitLen(a) == IF a = <<>> THEN 0 ELSE 16 * (Len(a) - 1) + BitLen(a[Len(a)])

RECURSIVE BigLess(_, _)
\* a < b
BigLess(a, b) ==
    IF Len(a) # Len(b) THEN Len(a) < Len(b)
    ELSE IF a = <<>> THEN FALSE
    ELSE IF a[Len(a)] # b[Len(b)] THEN a[Len(a)] < b[Len(b)]
    ELSE BigLess(BigNorm(SubSeq(a, 1, Len(a) - 1)), BigNorm(SubSeq(b, 1, Len(b) - 1)))

\* a rounded to a multiple of unit = 2^e (0 < e <= 16): to the nearest, and
\* of two equally near to the one whose quotient by unit is even
RoundToUnit(a, unit, low) ==
    IF low * 2 > unit
       \/ (low * 2 = unit
             /\ (IF unit = Limb THEN a[2] % 2 = 1 ELSE (Head(a) \div unit) % 2 = 1))
    THEN BigAdd(<<Head(a) - low>> \o Tail(a), BigOfInt(unit))
    ELSE BigNorm(<<Head(a) - low>> \o Tail(a))

\* a keeping its 53 most significant bits, e = number of bits of a - 53
RoundBits(a, e) == IF e <= 0 THEN a ELSE RoundToUnit(a, 2^e, Head(a) % (2^e))

\* The double nearest to the natural a (round to nearest, ties to even): a
\* double keeps 53 significant bits.  Below 2^48 nothing is lost; covers
\* a < 2^69 (at most 16 bits lost).
RoundToDouble(a) == IF Len(a) <= 3 THEN a ELSE RoundBits(a, BigBitLen(a) - 53)

\* ------------------------------------------------------------------------
\* 32-bit patterns: <<lo, hi>>, two halves of 16 bits
\* ------------------------------------------------------------------------
RECURSIVE XorBits(_, _)
\* bitwise exclusive or of two naturals, bit by bit
XorBits(a, b) ==
    IF a = 0 THEN b
    ELSE IF b = 0 THEN a
    ELSE ((a + b) % 2) + 2 * XorBits(a \div 2, b \div 2)

\* the same on 4-bit digits, tabulated
XorTable == [a \in 0..15 |-> [b \in 0..15 |-> XorBits(a, b)]]

\* a ^ b for two 16-bit halves
Xor(a, b) ==
    XorTable[a % 16][b % 16]
    + 16 * XorTable[(a \div 16) % 16][(b \div 16) % 16]
    + 256 * XorTable[(a \div 256) % 16][(b \div 256) % 16]
    + 4096 * XorTable[a \div 4096][b \div 4096]

RECURSIVE Or(_, _)
\* bitwise or of two naturals
Or(a, b) ==
    IF a = 0 THEN b
    ELSE IF b = 0 THEN a
    ELSE (IF (a % 2) + (b % 2) > 0 THEN 1 ELSE 0) + 2 * Or(a \div 2, b \div 2)

\* ToUint32 / ToInt32 of a natural: its low 32 bits
ToWord(a) == <<IF Len(a) >= 1 THEN a[1] ELSE 0, IF Len(a) >= 2 THEN a[2] ELSE 0>>

\* the 32-bit pattern of an integer in -2^31 .. 2^31-1 (two's complement)
IntToWord(n) == <<n % Limb, (n \div Limb) % Limb>>

\* the pattern read as an unsigned number (x >>> 0)
WordToBig(w) == BigNorm(w)

\* the sign bit of the pattern: set when it reads as a negative int32
IsNegative(w) == w[2] >= 2^15

WXor(a, b) == <<Xor(a[1], b[1]), Xor(a[2], b[2])>>

\* a | k for a constant 0 <= k < 2^16
WOr(a, k) == <<Or(a[1], k), a[2]>>

\* a >>> k for 0 < k < 16
WShr(a, k) == <<(a[1] \div 2^k) + (a[2] % 2^k) * 2^(16 - k), a[2] \div 2^k>>

\* a << k for 0 < k < 16
WShl(a, k) ==
    <<(a[1] * 2^k) % Limb, ((a[2] * 2^k) + ((a[1] * 2^k) \div Limb)) % Limb>>

\* (a + b) mod 2^32
WAdd(a, b) ==
    <<(a[1] + b[1]) % Limb, (a[2] + b[2] + ((a[1] + b[1]) \div Limb)) % Limb>>

\* (a - b) mod 2^32
WSub(a, b) ==
    <<(a[1] - b[1]) % Limb,
      (a[2] - b[2] - (IF a[1] < b[1] THEN 1 ELSE 0)) % Limb>>

\* x * y for two 16-bit halves, as <<low 16 bits, high 16 bits>>
Mul16(x, y) ==
    LET p1 == (x \div 256) * y
        p0 == (x % 256) * y
        s  == (p1 % 256) * 256 + p0
    IN  <<s % Limb, (p1 \div 256) + (s \div Limb)>>

\* Math.imul(a, b): the low 32 bits of the product
Imul(a, b) ==
    LET ll == Mul16(a[1], b[1])
        lh == Mul16(a[1], b[2])
        hl == Mul16(a[2], b[1])
    IN  <<ll[1], (ll[2] + lh[1] + hl[1]) % Limb>>

\* ------------------------------------------------------------------------
\* JavaScript numbers holding integers: [neg, mag], sign and magnitude.
\* Every arithmetic result is rounded to the nearest double.
\* ------------------------------------------------------------------------
Num(neg, mag) == [neg |-> neg /\ mag # <<>>, mag |-> mag]

\* the integer n in -2^31 .. 2^31-1 (the magnitude of -2^31 is no TLC integer)
NumOfInt(n) ==
    IF n < 0 THEN Num(TRUE, WordToBig(WSub(<<0, 0>>, IntToWord(n))))
    ELSE Num(FALSE, BigOfInt(n))

NumNeg(x) == Num(~x.neg, x.mag)

\* the double nearest to the exact integer x
NumRound(x) == Num(x.neg, RoundToDouble(x.mag))

\* x + y, exactly
SignedSum(x, y) ==
    IF x.neg = y.neg THEN Num(x.neg, BigAdd(x.mag, y.mag))
    ELSE IF BigLess(x.mag, y.mag) THEN Num(y.neg, BigSub(y.mag, x.mag))
    ELSE Num(x.neg, BigSub(x.mag, y.mag))

\* x + y
NumAdd(x, y) == NumRound(SignedSum(x, y))

\* x - y
NumSub(x, y) == NumAdd(x, NumNeg(y))

\* x * k for a constant 0 <= k < 2^14
NumMul(x, k) == NumRound(Num(x.neg, BigMulAdd(x.mag, k, 0)))

\* x % m for a constant 0 < m < 2^22: the remainder has the sign of x
NumRem(x, m) == IF x.neg THEN 0 - BigMod(x.mag, m) ELSE BigMod(x.mag, m)

\* ToInt32(x): the low 32 bits of x in two's complement
ToInt32(x) == IF x.neg THEN WSub(<<0, 0>>, ToWord(x.mag)) ELSE ToWord(x.mag)

\* the number a 32-bit pattern stands for as a signed int32
Int32Value(w) ==
    IF IsNegative(w) THEN Num(TRUE, WordToBig(WSub(<<0, 0>>, w)))
    ELSE Num(FALSE, WordToBig(w))

\* Math.abs
MathAbs(x) == Num(FALSE, x.mag)

\* ------------------------------------------------------------------------
\* CONFIGURATION (script.js 10-32)
\* ------------------------------------------------------------------------
CONFIG ==
    [ gamesPerProvider |-> 20,
      rtpRanges |-> [min |-> 30, max |-> 99],
      multipliers |-> << [value |-> "3X",  type |-> "low"],
                         [value |-> "7X",  type |-> "low"],
                         [value |-> "9X",  type |-> "medium"],
                         [value |-> "10X", type |-> "medium"],
                         [value |-> "11X", type |-> "medium"],
                         [value |-> "13X", type |-> "high"],
                         [value |-> "15X", type |-> "high"],
                         [value |-> "17X", type |-> "high"],
                         [value |-> "20X", type |-> "high"] >> ]

\* ------------------------------------------------------------------------
\* UTILITY FUNCTIONS (script.js 46-120).  The clock reading `now` is a
\* record of the local calendar fields of new Date().
\* ------------------------------------------------------------------------
\* getTimeSeed keeping the seconds of the reading
getTimeSeed_seconds(now) ==
    now.year * 525600 + now.month * 43800 + now.date * 1440
        + now.hours * 60 + now.minutes + now.seconds

\* getTimeSeed with the ten-minute window the source comment says it left
getTimeSeed_tenMinutes(now) ==
    now.year * 525600 + now.month * 43800 + now.date * 1440
        + now.hours * 60 + (now.minutes \div 10)

\* getTimeSeed weighting a month as 31 days
getTimeSeed_month31(now) ==
    now.year * 525600 + now.month * 44640 + now.date * 1440
        + now.hours * 60 + now.minutes

\* getTimeSeed with the month weighted as 30 days
getTimeSeed_month30(now) ==
    now.year * 525600 + now.month * 43200 + now.date * 1440 + now.hours * 60 + now.minutes

getTimeSeed(now) ==
    now.year * 525600 + now.month * 43800 + now.date * 1440
        + now.hours * 60 + now.minutes

\* line 62: t = Math.imul(t ^ t >>> 15, t | 1)
Mix15(t) == Imul(WXor(t, WShr(t, 15)), WOr(t, 1))

\* line 63: t ^= t + Math.imul(t ^ t >>> 7, t | 61); the sum of the two
\* int32 values is a number, which ^ takes back to 32 bits
Mix7(t) ==
    WXor(t, ToInt32(NumAdd(Int32Value(t),
                           Int32Value(Imul(WXor(t, WShr(t, 7)), WOr(t, 61))))))

\* line 64: (t ^ t >>> 14) >>> 0
Mix14(t) == WXor(t, WShr(t, 14))

\* seededRandom without Math.abs
seededRandom_signed(seed) ==
    Mix14(Mix7(Mix15(ToInt32(NumAdd(NumOfInt(seed), NumOfInt(1831565813))))))

\* seededRandom(seed) for an integer seed in -2^31 .. 2^31-1 (on these
\* `seed | 0` is the identity).  The result is the numerator n, a 32-bit
\* pattern read unsigned, of the returned fraction n / 4294967296.
seededRandom(seed) ==
    Mix14(Mix7(Mix15(ToInt32(NumAdd(MathAbs(NumOfInt(seed)), NumOfInt(1831565813))))))

\* Math.floor(random * range) for the fraction random = n / 2^32 and an
\* integer 0 < range < 2^15 (the product is exact in a double)
FloorScale(n, range) == (n[2] * range + ((n[1] * range) \div Limb)) \div Limb

\* scrambledSeed with the remainder centred on 0
scrambledSeed_centred(seed) ==
    NumRem(NumAdd(NumMul(seed, 9301), NumOfInt(49297)), 233280) - 116640

\* line 71: seed = (seed * 9301 + 49297) % 233280
scrambledSeed(seed) ==
    NumRem(NumAdd(NumMul(seed, 9301), NumOfInt(49297)), 233280)

\* getSeededRandomInt scaling by max + 1 instead of max - min + 1
getSeededRandomInt_span(seed, min, max) ==
    FloorScale(seededRandom(NumRem(NumAdd(NumMul(seed, 9301), NumOfInt(49297)), 233280)),
               max + 1) + min

getSeededRandomInt(seed, min, max) ==
    FloorScale(seededRandom(scrambledSeed(seed)), max - min + 1) + min

\* HashStep without hash = hash & hash
HashStep_untruncated(hash, char) ==
    NumAdd(NumSub(Int32Value(WShl(ToInt32(hash), 5)), hash), NumOfInt(char))

\* HashStep shifting by 4
HashStep_shift4(hash, char) ==
    Int32Value(ToInt32(NumAdd(NumSub(Int32Value(WShl(ToInt32(hash), 4)), hash),
                              NumOfInt(char))))

\* one pass of the loop body: hash = ((hash << 5) - hash) + char; hash & hash
HashStep(hash, char) ==
    Int32Value(ToInt32(NumAdd(NumSub(Int32Value(WShl(ToInt32(hash), 5)), hash),
                              NumOfInt(char))))

RECURSIVE HashLoop(_, _, _)
\* the for loop from index i (1-based) with accumulator hash.  The test
\* hash = hash is always true: it makes TLC compute the accumulator of one
\* pass before it starts the next.
HashLoop(str, i, hash) ==
    IF i > Len(str) THEN hash
    ELSE IF hash = hash THEN HashLoop(str, i + 1, HashStep(hash, str[i]))
    ELSE hash

\* the absolute value taken in 32 bits, where -2^31 has none
HashReturn_int32(hash) == Int32Value(ToInt32(MathAbs(hash)))

\* line 86: return Math.abs(hash)
HashReturn(hash) == MathAbs(hash)

\* a string is the sequence of its UTF-16 code units
stringToHash(str) == HashReturn(HashLoop(str, 1, NumOfInt(0)))

\* game ids, as sequences of UTF-16 code units
Id_gates == <<112,114,97,103,109,97,116,105,99,47,103,97,116,101,115,45,
              111,102,45,111,108,121,109,112,117,115>>   \* "pragmatic/gates-of-olympus"
Id_pg1   == <<112,103,47,49,46,112,110,103>>              \* "pg/1.png"
Id_poly  == <<112,111,108,121,103,101,110,101,108,117,98,114,105,99,97,110,116,115>>
                                                          \* "polygenelubricants"
Id_wanted == <<104,97,99,107,115,97,119,47,119,97,110,116,101,100,46,112,110,103>>
                                                          \* "hacksaw/wanted.png"
GameIds == { Id_gates, Id_pg1, Id_poly }

\* stringToHash(gameId) for the game ids, computed once for each
gameHash == [gameId \in GameIds |-> stringToHash(gameId)]

\* combinedSeed with the time window multiplied by 100
combinedSeed_hundred(timeSeed, gameNumericId) ==
    NumAdd(NumMul(NumOfInt(timeSeed), 100), gameNumericId)

\* lines 95, 106, 111: timeSeed * 1000 + gameNumericId
combinedSeed(timeSeed, gameNumericId) ==
    NumAdd(NumMul(NumOfInt(timeSeed), 1000), gameNumericId)

\* gameId is always a string here (loadAllGames builds `${provider}/${imageName}`),
\* so gameNumericId is stringToHash(gameId)
generateRandomRTP(gameId, now) ==
    getSeededRandomInt(combinedSeed(getTimeSeed(now), gameHash[gameId]),
                       CONFIG.rtpRanges.min, CONFIG.rtpRanges.max)

\* multiplierIndex with the table length as the upper bound
multiplierIndex_length(timeSeed, gameNumericId) ==
    getSeededRandomInt(NumMul(combinedSeed(timeSeed, gameNumericId), 7),
                       0, Len(CONFIG.multipliers))

\* lines 106-107: the index into CONFIG.multipliers
multiplierIndex(timeSeed, gameNumericId) ==
    getSeededRandomInt(NumMul(combinedSeed(timeSeed, gameNumericId), 7),
                       0, Len(CONFIG.multipliers) - 1)

\* lines 111-113: Manual or Auto
multiplierText(timeSeed, gameNumericId) ==
    IF getSeededRandomInt(NumMul(combinedSeed(timeSeed, gameNumericId), 11), 0, 1) = 1
    THEN "Manual" ELSE "Auto"

\* what reading .value of an undefined table entry does
TypeError == [value |-> "TypeError", type |-> "TypeError", text |-> "TypeError"]

\* lines 108, 115-119: the entry at the index (JavaScript arrays are 0-based,
\* TLA+ sequences 1-based) and the text
multiplierResult(index, text) ==
    IF index + 1 \in DOMAIN CONFIG.multipliers
    THEN [value |-> CONFIG.multipliers[index + 1].value,
          type  |-> CONFIG.multipliers[index + 1].type,
          text  |-> text]
    ELSE TypeError

generateRandomMultiplierFrom(timeSeed, gameNumericId) ==
    multiplierResult(multiplierIndex(timeSeed, gameNumericId),
                     multiplierText(timeSeed, gameNumericId))

generateRandomMultiplier(gameId, now) ==
    generateRandomMultiplierFrom(getTimeSeed(now), gameHash[gameId])

\* getRTPColorClass comparing with > instead of >=
getRTPColorClass_strict(rtp) ==
    IF rtp > 70 THEN "high" ELSE IF rtp > 50 THEN "medium" ELSE "low"

getRTPColorClass(rtp) ==
    IF rtp >= 70 THEN "high" ELSE IF rtp >= 50 THEN "medium" ELSE "low"

\* ------------------------------------------------------------------------
\* The local clock (what new Date() reports, script.js 47)
\* ------------------------------------------------------------------------
IsLeapYear(y) == (y % 4 = 0 /\ y % 100 # 0) \/ y % 400 = 0

\* month is 0..11 as getMonth() returns it
DaysInMonth(y, month) ==
    IF month = 1 THEN (IF IsLeapYear(y) THEN 29 ELSE 28)
    ELSE IF month \in {3, 5, 8, 10} THEN 30
    ELSE 31

IsCalendarMinute(t) ==
    /\ t.month \in 0..11
    /\ t.date \in 1..DaysInMonth(t.year, t.month)
    /\ t.hours \in 0..23
    /\ t.minutes \in 0..59

At(y, month, d, h, mi) ==
    [year |-> y, month |-> month, date |-> d, hours |-> h, minutes |-> mi,
     seconds |-> 0, ms |-> 0]

\* the calendar minute of a reading, without its seconds and milliseconds
MinuteOf(t) == <<t.year, t.month, t.date, t.hours, t.minutes>>

\* the first instant of the minute after t's
NextMinute(t) ==
    IF t.minutes < 59 THEN At(t.year, t.month, t.date, t.hours, t.minutes + 1)
    ELSE IF t.hours < 23 THEN At(t.year, t.month, t.date, t.hours + 1, 0)
    ELSE IF t.date < DaysInMonth(t.year, t.month) THEN At(t.year, t.month, t.date + 1, 0, 0)
    ELSE IF t.month < 11 THEN At(t.year, t.month + 1, 1, 0, 0)
    ELSE At(t.year + 1, 0, 1, 0, 0)

\* ------------------------------------------------------------------------
\* Bounds of the model
\* ------------------------------------------------------------------------
\* minute boundaries one run crosses
MaxMinutes == 2

\* where a run of the generators starts: the scenario of the design document,
\* the end of a 31-day month and the end of a year
StartTimes ==
    { At(2024, 0, 15, 10, 30), At(2024, 0, 31, 23, 58), At(2024, 11, 31, 23, 58) }

\* where a run of getTimeSeed starts: an ordinary minute, and the minutes
\* before an hour, a day, a 30-day month, a 31-day month, a leap and a
\* common February, and a year roll over
SeedStartTimes ==
    { At(2024, 0, 15, 10, 30), At(2024, 0, 15, 10, 58), At(2024, 0, 15, 23, 58),
      At(2024, 3, 30, 23, 58), At(2024, 0, 31, 23, 58), At(2024, 1, 29, 23, 58),
      At(2025, 1, 28, 23, 58), At(2024, 11, 31, 23, 58) }

\* the instants inside a minute the clock is read at: <<seconds, ms>>
SubMinute == { <<0, 0>>, <<59, 999>> }

\* the calendar minutes getTimeSeed is compared on: the first and the last
\* days of the months of 2024 and of the first two months of 2025, around
\* midnight and around 10:00 and 14:00
PairMinutes ==
    { t \in { At(y, month, d, h, mi) : y \in {2024, 2025}, month \in {0, 1, 2, 3, 4, 11},
                                      d \in {1, 28, 29, 30, 31},
                                      h \in {0, 9, 10, 13, 14, 23}, mi \in {0, 59} } :
        IsCalendarMinute(t) /\ (t.year = 2024 \/ t.month <= 1) }

\* the longest string built from HashAlphabet
MaxStrLen == 3

\* code units the short strings are built from: "a" and the largest one
HashAlphabet == { 97, 65535 }

RECURSIVE StringsUpTo(_)
StringsUpTo(n) ==
    IF n = 0 THEN { <<>> }
    ELSE StringsUpTo(n - 1)
         \cup { Append(str, c) : str \in { x \in StringsUpTo(n - 1) : Len(x) = n - 1 },
                                 c \in HashAlphabet }

\* the arguments of stringToHash: the short strings, the empty one included,
\* the game ids, and one more id, whose accumulator ends negative
HashInputs == StringsUpTo(MaxStrLen) \cup GameIds \cup { Id_wanted }

\* the largest small seed
MaxProbe == 20

\* the seeds seededRandom is called with: the small ones of either sign, a
\* few LCG outputs, and the ends of the 32-bit range
RandomSeeds ==
    (-MaxProbe .. MaxProbe)
    \cup { 12345, -12345, 233279, -233279, 1831565813, -1831565813,
           2147483647, -2147483647, -2147483647 - 1 }

\* the seeds getSeededRandomInt is called with: the small ones, and the
\* seeds generateRandomRTP (1) and generateRandomMultiplier (7, 11) build on
\* 15 January 2024 at 10:30
IntSeeds ==
    { NumOfInt(n) : n \in 0 .. MaxProbe }
    \cup { NumMul(combinedSeed(getTimeSeed(At(2024, 0, 15, 10, 30)), gameHash[g]), k) :
             g \in GameIds, k \in {1, 7, 11} }

\* <<min, max>>
IntRanges == { <<30, 99>>, <<0, 8>>, <<0, 1>>, <<5, 5>> }

\* ------------------------------------------------------------------------
\* The clock and the calls of the two generators
\* ------------------------------------------------------------------------
NoCall == [fn |-> "none"]

\* the parts of the state a specification does not use stay as they are here
ClockIdle == clock = NoCall /\ elapsed = 0 /\ prev = NoCall /\ cur = NoCall

PairIdle == first = NoCall /\ second = NoCall /\ seeds = <<>>

HashIdle ==
    /\ hashStr = <<>> /\ hashI = 0 /\ hashAcc = NumOfInt(0)
    /\ hashRet = <<>> /\ hashPrev = NoCall

RngIdle == probe = NoCall

\* the carousel before setupCarousel() runs
CarouselIdle ==
    /\ carousel = "none" /\ currentSlide = 0 /\ totalSlides = 0 /\ dotCount = 0
    /\ autoSlideInterval = 0 /\ activeIntervals = {}
    /\ hovering = FALSE /\ touching = FALSE /\ touchStartX = 0 /\ touchEndX = 0

\* script.js 35-37: the page before init() runs
AppIdle ==
    /\ allGames = <<>> /\ currentProvider = "all" /\ showAllGames = TRUE
    /\ grid = <<>> /\ refreshTimers = <<>> /\ renderCount = 0
    /\ page = "start" /\ discovery = NoCall
    /\ CarouselIdle

Init ==
    /\ clock \in StartTimes
    /\ elapsed = 0
    /\ prev = NoCall
    /\ cur = NoCall
    /\ PairIdle /\ HashIdle /\ RngIdle /\ AppIdle

\* time passes inside the current minute
TickWithinMinute ==
    /\ \E sub \in SubMinute :
          /\ sub[1] * 1000 + sub[2] > clock.seconds * 1000 + clock.ms
          /\ clock' = [clock EXCEPT !.seconds = sub[1], !.ms = sub[2]]
    /\ UNCHANGED <<elapsed, prev, cur, pairVars, hashVars, rngVars, appVars>>

\* the clock reaches the next minute
TickMinute ==
    /\ elapsed < MaxMinutes
    /\ clock' = NextMinute(clock)
    /\ elapsed' = elapsed + 1
    /\ UNCHANGED <<prev, cur, pairVars, hashVars, rngVars, appVars>>

\* CallRTP when generateRandomRTP also assigns the global showAllGames
CallRTP_assignsGlobal(gameId) ==
    /\ cur' = [fn |-> "rtp", gameId |-> gameId, at |-> clock,
               timeSeed |-> getTimeSeed(clock), out |-> generateRandomRTP(gameId, clock)]
    /\ prev' = cur
    /\ showAllGames' = FALSE
    /\ UNCHANGED <<clock, elapsed, pairVars, hashVars, rngVars, allGames, currentProvider,
                   grid, refreshTimers, renderCount, page, discovery, carouselVars>>

\* generateRandomRTP(gameId), called at the current instant
CallRTP(gameId) ==
    /\ cur' = [fn |-> "rtp", gameId |-> gameId, at |-> clock,
               timeSeed |-> getTimeSeed(clock), out |-> generateRandomRTP(gameId, clock)]
    /\ prev' = cur
    /\ UNCHANGED <<clock, elapsed, pairVars, hashVars, rngVars, appVars>>

\* generateRandomMultiplier(gameId), called at the current instant
CallMultiplier(gameId) ==
    /\ cur' = [fn |-> "multiplier", gameId |-> gameId, at |-> clock,
               timeSeed |-> getTimeSeed(clock),
               out |-> generateRandomMultiplier(gameId, clock)]
    /\ prev' = cur
    /\ UNCHANGED <<clock, elapsed, pairVars, hashVars, rngVars, appVars>>

\* getTimeSeed(), called at the current instant
CallGetTimeSeed ==
    /\ cur' = [fn |-> "getTimeSeed", at |-> clock, timeSeed |-> getTimeSeed(clock)]
    /\ prev' = cur
    /\ UNCHANGED <<clock, elapsed, pairVars, hashVars, rngVars, appVars>>

Next ==
    \/ TickWithinMinute
    \/ TickMinute
    \/ \E g \in GameIds : CallRTP(g)
    \/ \E g \in GameIds : CallMultiplier(g)

Spec == Init /\ [][Next]_vars

\* getTimeSeed alone under a running clock, over every kind of roll-over
InitSeed ==
    /\ clock \in SeedStartTimes
    /\ elapsed = 0
    /\ prev = NoCall
    /\ cur = NoCall
    /\ PairIdle /\ HashIdle /\ RngIdle /\ AppIdle

NextSeed ==
    \/ TickWithinMinute
    \/ TickMinute
    \/ CallGetTimeSeed

SpecSeed == InitSeed /\ [][NextSeed]_vars

\* ------------------------------------------------------------------------
\* getTimeSeed on two calendar minutes (SpecPair)
\* ------------------------------------------------------------------------
\* the position of a calendar minute in the order of time
CalendarOrder(t) ==
    ((((t.year * 12 + t.month) * 32 + t.date) * 24 + t.hours) * 60) + t.minutes

\* any two different calendar minutes of the sample, the earlier one first
InitPair ==
    /\ first \in PairMinutes
    /\ second \in PairMinutes
    /\ CalendarOrder(first) < CalendarOrder(second)
    /\ seeds = <<>>
    /\ ClockIdle /\ HashIdle /\ RngIdle /\ AppIdle

\* getTimeSeed() is called at each of the two minutes
ReadPair ==
    /\ seeds = <<>>
    /\ seeds' = <<getTimeSeed(first), getTimeSeed(second)>>
    /\ UNCHANGED <<first, second, clockVars, hashVars, rngVars, appVars>>

NextPair == ReadPair

SpecPair == InitPair /\ [][NextPair]_vars

\* ------------------------------------------------------------------------
\* stringToHash, one pass of its loop at a time (SpecHash)
\* ------------------------------------------------------------------------
\* lines 80-81: the call with argument str; hash = 0, i = 0
HashEnter(str) ==
    /\ hashStr' = str
    /\ hashI' = 0
    /\ hashAcc' = NumOfInt(0)
    /\ hashRet' = <<>>

InitHash ==
    /\ hashStr \in HashInputs
    /\ hashI = 0
    /\ hashAcc = NumOfInt(0)
    /\ hashRet = <<>>
    /\ hashPrev = NoCall
    /\ ClockIdle /\ PairIdle /\ RngIdle /\ AppIdle

\* lines 81-85: one pass of the loop; str.charCodeAt(i) is hashStr[i + 1]
HashIterate ==
    /\ hashRet = <<>>
    /\ hashI < Len(hashStr)
    /\ hashAcc' = HashStep(hashAcc, hashStr[hashI + 1])
    /\ hashI' = hashI + 1
    /\ UNCHANGED <<hashStr, hashRet, hashPrev, clockVars, pairVars, rngVars, appVars>>

\* line 86: the loop is over, return Math.abs(hash)
HashExit ==
    /\ hashRet = <<>>
    /\ hashI = Len(hashStr)
    /\ hashRet' = <<HashReturn(hashAcc)>>
    /\ UNCHANGED <<hashStr, hashI, hashAcc, hashPrev, clockVars, pairVars, rngVars, appVars>>

\* the next call of stringToHash
HashCallAgain(str) ==
    /\ hashRet # <<>>
    /\ hashPrev' = [fn |-> "stringToHash", str |-> hashStr, ret |-> hashRet[1]]
    /\ HashEnter(str)
    /\ UNCHANGED <<clockVars, pairVars, rngVars, appVars>>

NextHash ==
    \/ HashIterate
    \/ HashExit
    \/ \E str \in HashInputs : HashCallAgain(str)

SpecHash == InitHash /\ [][NextHash]_vars

\* ------------------------------------------------------------------------
\* seededRandom and getSeededRandomInt called directly (SpecRng)
\* ------------------------------------------------------------------------
InitRng ==
    /\ probe = NoCall
    /\ ClockIdle /\ PairIdle /\ HashIdle /\ AppIdle

\* seededRandom(seed)
CallSeededRandom(seed) ==
    /\ probe' = [fn |-> "seededRandom", seed |-> seed, out |-> seededRandom(seed)]
    /\ UNCHANGED <<clockVars, pairVars, hashVars, appVars>>

\* getSeededRandomInt(seed, min, max)
CallGetSeededRandomInt(seed, min, max) ==
    /\ probe' = [fn |-> "getSeededRandomInt", seed |-> seed, min |-> min, max |-> max,
                 out |-> getSeededRandomInt(seed, min, max)]
    /\ UNCHANGED <<clockVars, pairVars, hashVars, appVars>>

NextRng ==
    \/ \E seed \in RandomSeeds : CallSeededRandom(seed)
    \/ \E seed \in IntSeeds, range \in IntRanges :
          CallGetSeededRandomInt(seed, range[1], range[2])

SpecRng == InitRng /\ [][NextRng]_vars

\* ------------------------------------------------------------------------
\* Properties of the generators under a running clock (Spec)
\* ------------------------------------------------------------------------
BothCalls == prev.fn # "none" /\ cur.fn # "none"

SameMinute == MinuteOf(prev.at) = MinuteOf(cur.at)

ConsecutiveMinutes == MinuteOf(NextMinute(prev.at)) = MinuteOf(cur.at)

\* C1 - Determinism: two calls of the same generator for the same game id at
\* two readings of the same local calendar minute (any seconds and
\* milliseconds) return the same RTP, or the same multiplier value, type and
\* text.
C1_Determinism ==
    (BothCalls /\ cur.fn = prev.fn /\ cur.gameId = prev.gameId /\ SameMinute)
        => cur.out = prev.out

\* the multiplier was generated at the first and at the last millisecond of
\* one minute for the same game
C1_Witness ==
    /\ prev.fn = "multiplier" /\ cur.fn = "multiplier"
    /\ cur.gameId = prev.gameId
    /\ SameMinute
    /\ prev.at.seconds = 0 /\ cur.at.seconds = 59 /\ cur.at.ms = 999

\* C2 - Range containment: every RTP returned lies in
\* CONFIG.rtpRanges.min .. CONFIG.rtpRanges.max (30 .. 99).
C2_RangeContainment ==
    cur.fn = "rtp" => cur.out \in CONFIG.rtpRanges.min .. CONFIG.rtpRanges.max

\* an RTP of the upper tier was generated after the year rolled over
C2_Witness ==
    cur.fn = "rtp" /\ cur.at.year = 2025 /\ cur.out >= 70

\* C10 - Multiplier selection: the index is
\* getSeededRandomInt((epochMinute*1000 + hash)*7, 0, tableLength-1), it lies
\* in 0 .. tableLength-1, and value and type both come from the table entry
\* at that index.
C10_MultiplierSelection ==
    cur.fn = "multiplier" =>
        LET base  == NumAdd(NumMul(NumOfInt(cur.timeSeed), 1000), stringToHash(cur.gameId))
            index == getSeededRandomInt(NumMul(base, 7), 0, Len(CONFIG.multipliers) - 1)
        IN  /\ index \in 0 .. Len(CONFIG.multipliers) - 1
            /\ cur.out.value = CONFIG.multipliers[index + 1].value
            /\ cur.out.type = CONFIG.multipliers[index + 1].type

\* the last entry of the table was selected
C10_Witness ==
    cur.fn = "multiplier" /\ cur.out.value = "20X" /\ cur.out.type = "high"

\* ------------------------------------------------------------------------
\* Properties of getTimeSeed under a running clock (SpecSeed)
\* ------------------------------------------------------------------------
\* C3 - Minute boundary: getTimeSeed is the same for all readings inside one
\* minute, and its value for a minute differs from its value for the minute
\* that follows, across hour, day, month and year roll-overs too.
C3_MinuteBoundary ==
    BothCalls =>
        /\ SameMinute => cur.timeSeed = prev.timeSeed
        /\ ConsecutiveMinutes => cur.timeSeed # prev.timeSeed

\* getTimeSeed was read in the last minute of 2024 and in the first of 2025
C3_Witness ==
    /\ BothCalls /\ ConsecutiveMinutes
    /\ prev.at.year = 2024 /\ cur.at.year = 2025
    /\ cur.timeSeed # prev.timeSeed

\* C5 as stated - Monotonicity: the clock only moves forward, so the seed of
\* a later call is never smaller, and it is larger once a minute boundary
\* lies between the two calls.
C5_Monotonic ==
    BothCalls =>
        /\ prev.timeSeed <= cur.timeSeed
        /\ ~SameMinute => prev.timeSeed < cur.timeSeed

\* the minute boundary that leaves day 31 of a month
LeavesDay31(t) == t.date = 31 /\ t.hours = 23 /\ t.minutes = 59

\* C5 as amended - the seed is the same inside a minute and strictly
\* increases at every minute boundary except the one that leaves day 31 of a
\* month (the end of a 31-day month, the end of the year included), where it
\* decreases by 839.
C5_MonotonicExceptDay31 ==
    BothCalls =>
        /\ SameMinute => cur.timeSeed = prev.timeSeed
        /\ (ConsecutiveMinutes /\ ~LeavesDay31(prev.at)) => cur.timeSeed > prev.timeSeed
        /\ (ConsecutiveMinutes /\ LeavesDay31(prev.at)) => cur.timeSeed = prev.timeSeed - 839

\* getTimeSeed was read in the last minute of a day 31 and in the minute
\* after it, and the second value is the smaller one
C5_Witness ==
    /\ BothCalls /\ ConsecutiveMinutes
    /\ prev.at.hours = 23 /\ prev.at.minutes = 59 /\ cur.at.date = 1
    /\ prev.at.date = 31 /\ cur.timeSeed < prev.timeSeed

\* ------------------------------------------------------------------------
\* Properties of getTimeSeed on two calendar minutes (SpecPair)
\* ------------------------------------------------------------------------
\* C4 as stated - Uniqueness: two different valid calendar minutes never
\* yield the same getTimeSeed value.
C4_Injective ==
    seeds # <<>> => seeds[1] # seeds[2]

\* month b is the month that follows month a
FollowingMonth(a, b) ==
    \/ b.year = a.year /\ b.month = a.month + 1
    \/ b.year = a.year + 1 /\ a.month = 11 /\ b.month = 0

\* a is a minute of day 31 at 10:00 or later and b is the minute 14 hours
\* after it, on day 1 of the following month
Day31Pair(a, b) ==
    /\ a.date = 31 /\ b.date = 1 /\ FollowingMonth(a, b)
    /\ a.hours >= 10
    /\ b.hours * 60 + b.minutes = a.hours * 60 + a.minutes - 600

\* C4 as amended - two different valid calendar minutes yield the same
\* getTimeSeed value exactly when the earlier one is a minute of day 31 at
\* 10:00 or later and the later one is the minute 14 hours after it, on day 1
\* of the following month; every other pair yields two different values.
C4_InjectiveExceptDay31 ==
    seeds # <<>> => (seeds[1] = seeds[2] <=> Day31Pair(first, second))

\* 31 December at 23:59 and 1 January of the next year at 13:59 were read
\* and have the same value
C4_Witness ==
    /\ seeds # <<>> /\ seeds[1] = seeds[2]
    /\ first.month = 11 /\ first.hours = 23 /\ first.minutes = 59
    /\ second.year = first.year + 1 /\ second.hours = 13

\* ------------------------------------------------------------------------
\* Properties of stringToHash (SpecHash)
\* ------------------------------------------------------------------------
\* an integer folded into a signed 32-bit integer
Fold32(x) == Int32Value(ToInt32(x))

\* C6 as stated - Hash accumulation: the accumulator starts from 0, each
\* character in order updates it to hash*31 - hash + charCode folded into a
\* signed 32-bit integer, and the absolute value of the final accumulator is
\* returned.
C6_HashAccumulation ==
    /\ [](hashI = 0 => hashAcc = NumOfInt(0))
    /\ [][hashI' = hashI + 1 =>
            hashAcc' = Fold32(NumAdd(NumSub(NumMul(hashAcc, 31), hashAcc),
                                     NumOfInt(hashStr[hashI'])))]_vars
    /\ [](hashRet # <<>> => hashI = Len(hashStr) /\ hashRet[1] = MathAbs(hashAcc))

\* C6 as amended - the accumulator starts from 0, each character in order
\* updates it to hash*31 + charCode (that is hash*32 - hash + charCode) folded
\* into a signed 32-bit integer, and the absolute value of the final
\* accumulator is returned.
C6_HashAccumulation31 ==
    /\ [](hashI = 0 => hashAcc = NumOfInt(0))
    /\ [][hashI' = hashI + 1 =>
            hashAcc' = Fold32(NumAdd(NumMul(hashAcc, 31), NumOfInt(hashStr[hashI'])))]_vars
    /\ [](hashRet # <<>> => hashI = Len(hashStr) /\ hashRet[1] = MathAbs(hashAcc))

\* the hash of "hacksaw/wanted.png" was returned: the accumulator wrapped
\* around and ended negative
C6_Witness ==
    /\ hashRet # <<>> /\ hashStr = Id_wanted
    /\ hashAcc.neg /\ hashRet[1] = NumOfInt(22154831)

\* C7 - Hash non-negativity: stringToHash returns a non-negative integer for
\* every string, the empty string and the strings whose accumulator ends at
\* -2^31 included, and two calls with the same string return the same
\* integer.
C7_HashNonNegative ==
    hashRet # <<>> =>
        /\ ~hashRet[1].neg
        /\ (hashPrev.fn = "stringToHash" /\ hashPrev.str = hashStr)
              => hashPrev.ret = hashRet[1]

\* the hash of a string whose accumulator ends at -2^31 was returned for the
\* second time
C7_Witness ==
    /\ hashRet # <<>>
    /\ hashAcc.neg /\ hashAcc.mag = <<0, 32768>>
    /\ hashPrev.fn = "stringToHash" /\ hashPrev.str = hashStr

\* ------------------------------------------------------------------------
\* Properties of seededRandom and getSeededRandomInt (SpecRng)
\* ------------------------------------------------------------------------
\* the four documented steps on a 32-bit pattern w, every sum and product
\* with 32-bit wraparound; the result is the numerator of the fraction
Mulberry32(w) ==
    LET s == WAdd(w, IntToWord(1831565813))
        t == Imul(WXor(s, WShr(s, 15)), WOr(s, 1))
        u == WXor(t, WAdd(t, Imul(WXor(t, WShr(t, 7)), WOr(t, 61))))
    IN  WXor(u, WShr(u, 14))

IsUint32(w) == w[1] \in 0 .. Limb - 1 /\ w[2] \in 0 .. Limb - 1

\* C8 as stated - Mulberry32 reference: for every 32-bit integer seed,
\* seededRandom(seed) is the result of the four documented steps applied to
\* that seed, so its numerator is in 0 .. 2^32-1.
C8_Mulberry32 ==
    probe.fn = "seededRandom" =>
        probe.out = Mulberry32(IntToWord(probe.seed)) /\ IsUint32(probe.out)

\* the 32-bit pattern of Math.abs(seed | 0); for -2^31 it is that of 2^31
AbsWord(seed) ==
    IF seed < 0 THEN WSub(<<0, 0>>, IntToWord(seed)) ELSE IntToWord(seed)

\* C8 as amended - for every 32-bit integer seed, seededRandom(seed) is the
\* result of the four documented steps applied to the absolute value of the
\* seed (to the seed itself when it is not negative), so its numerator is in
\* 0 .. 2^32-1.
C8_Mulberry32OfAbs ==
    probe.fn = "seededRandom" =>
        probe.out = Mulberry32(AbsWord(probe.seed)) /\ IsUint32(probe.out)

\* seededRandom was called with a negative seed and returned what the steps
\* give for its absolute value, not what they give for the seed
C8_Witness ==
    /\ probe.fn = "seededRandom" /\ probe.seed = -12345
    /\ probe.out = Mulberry32(IntToWord(12345))
    /\ probe.out # Mulberry32(IntToWord(-12345))

\* C9 - Two-stage integer helper: for every non-negative integer seed and
\* min <= max, getSeededRandomInt(seed, min, max) is
\* floor(seededRandom((seed*9301 + 49297) mod 233280) * (max - min + 1)) + min
\* and lies in min .. max.
C9_TwoStage ==
    probe.fn = "getSeededRandomInt" =>
        /\ probe.out =
              FloorScale(seededRandom(BigMod(BigMulAdd(probe.seed.mag, 9301, 49297), 233280)),
                         probe.max - probe.min + 1) + probe.min
        /\ probe.out \in probe.min .. probe.max

\* ------------------------------------------------------------------------
\* The combined seeds of two games in adjacent time windows (SpecWindow)
\* ------------------------------------------------------------------------
Id_a     == <<97>>                                        \* "a", hash 97
Id_bangJ == <<33, 74>>                                    \* "!J", hash 1097

\* the ids whose combined seeds are compared
WindowIds == { <<>>, Id_a, Id_bangJ, Id_pg1, Id_gates, Id_poly }

\* stringToHash(id) for these ids, computed once for each
windowHash == [id \in WindowIds |-> stringToHash(id)]

InitWindow ==
    /\ clock \in SeedStartTimes
    /\ elapsed = 0
    /\ prev = NoCall
    /\ cur = NoCall
    /\ probe = NoCall
    /\ PairIdle /\ HashIdle /\ AppIdle

\* lines 93-95 for game id1 in the window m of the clock and for game id2 in
\* the window m + 1
CallCombinedSeeds(id1, id2) ==
    /\ probe' = [fn |-> "combinedSeed", m |-> getTimeSeed(clock),
                 id1 |-> id1, id2 |-> id2,
                 seed1 |-> combinedSeed(getTimeSeed(clock), windowHash[id1]),
                 seed2 |-> combinedSeed(getTimeSeed(clock) + 1, windowHash[id2])]
    /\ UNCHANGED <<clockVars, pairVars, hashVars, appVars>>

NextWindow ==
    \/ TickMinute
    \/ \E id1 \in WindowIds, id2 \in WindowIds : CallCombinedSeeds(id1, id2)

SpecWindow == InitWindow /\ [][NextWindow]_vars

\* C11 as stated - No seed collision across adjacent windows: for adjacent
\* epoch minutes m and m+1 and any two hashes h1, h2 that stringToHash can
\* return, m*1000 + h1 and (m+1)*1000 + h2 are different.
C11_NoCollision ==
    probe.fn = "combinedSeed" => probe.seed1 # probe.seed2

\* C11 as amended - for adjacent epoch minutes m and m+1 and any two hashes
\* h1, h2 that stringToHash can return, m*1000 + h1 and (m+1)*1000 + h2 are
\* the same exactly when h1 = h2 + 1000, and different for every other pair
\* of hashes.
C11_CollisionIffThousandApart ==
    probe.fn = "combinedSeed" =>
        (probe.seed1 = probe.seed2
            <=> stringToHash(probe.id1) = NumAdd(stringToHash(probe.id2), NumOfInt(1000)))

\* "!J" in one window and "a" in the next one got the same combined seed,
\* after the clock had moved on
C11_Witness ==
    /\ probe.fn = "combinedSeed" /\ elapsed > 0
    /\ probe.id1 = Id_bangJ /\ probe.id2 = Id_a
    /\ probe.seed1 = probe.seed2

\* ------------------------------------------------------------------------
\* getRTPColorClass called directly (SpecTier)
\* ------------------------------------------------------------------------
\* the integers getRTPColorClass is called with: the percentages and some
\* integers on either side of them
TierInputs == -MaxProbe .. 100 + MaxProbe

InitTier ==
    /\ probe = NoCall
    /\ ClockIdle /\ PairIdle /\ HashIdle /\ AppIdle

\* getRTPColorClass(rtp)
CallGetRTPColorClass(rtp) ==
    /\ probe' = [fn |-> "getRTPColorClass", rtp |-> rtp, out |-> getRTPColorClass(rtp)]
    /\ UNCHANGED <<clockVars, pairVars, hashVars, appVars>>

NextTier == \E rtp \in TierInputs : CallGetRTPColorClass(rtp)

SpecTier == InitTier /\ [][NextTier]_vars

\* C12 - Tier consistency: getRTPColorClass(r) is "low" iff r < 50, "medium"
\* iff 50 <= r < 70 and "high" iff r >= 70; exactly one of the three tiers is
\* returned for every integer r.
C12_TierConsistency ==
    probe.fn = "getRTPColorClass" =>
        /\ probe.out \in {"low", "medium", "high"}
        /\ probe.out = "low" <=> probe.rtp < 50
        /\ probe.out = "medium" <=> (50 <= probe.rtp /\ probe.rtp < 70)
        /\ probe.out = "high" <=> probe.rtp >= 70

\* the tier of 70, the smallest percentage of the high tier, was returned
C12_Witness ==
    probe.fn = "getRTPColorClass" /\ probe.rtp = 70 /\ probe.out = "high"

\* ------------------------------------------------------------------------
\* The variant without the Manual / Auto text (src/unnamed/part_000), whose
\* getTimeSeed, seededRandom, getSeededRandomInt and stringToHash are the
\* same text as those of script.js, called next to script.js (SpecVariant)
\* ------------------------------------------------------------------------
\* part_000 lines 92-97
variantGenerateRandomRTP(gameId, now) ==
    getSeededRandomInt(combinedSeed(getTimeSeed(now), gameHash[gameId]),
                       CONFIG.rtpRanges.min, CONFIG.rtpRanges.max)

\* variantMultiplierIndex with the factor of the text seed
variantMultiplierIndex_eleven(timeSeed, gameNumericId) ==
    getSeededRandomInt(NumMul(combinedSeed(timeSeed, gameNumericId), 11),
                       0, Len(CONFIG.multipliers) - 1)

\* part_000 lines 106-107
variantMultiplierIndex(timeSeed, gameNumericId) ==
    getSeededRandomInt(NumMul(combinedSeed(timeSeed, gameNumericId), 7),
                       0, Len(CONFIG.multipliers) - 1)

\* part_000 lines 108-113: the object returned has no text
variantMultiplierResult(index) ==
    IF index + 1 \in DOMAIN CONFIG.multipliers
    THEN [value |-> CONFIG.multipliers[index + 1].value,
          type  |-> CONFIG.multipliers[index + 1].type]
    ELSE [value |-> "TypeError", type |-> "TypeError"]

\* part_000 lines 102-114
variantGenerateRandomMultiplier(gameId, now) ==
    variantMultiplierResult(variantMultiplierIndex(getTimeSeed(now), gameHash[gameId]))

\* both variants compute the RTP and the multiplier of one game at the
\* current instant
CallVariants(gameId) ==
    /\ cur' = [fn |-> "variants", gameId |-> gameId, at |-> clock,
               timeSeed |-> getTimeSeed(clock),
               rtp |-> generateRandomRTP(gameId, clock),
               rtpVariant |-> variantGenerateRandomRTP(gameId, clock),
               out |-> generateRandomMultiplier(gameId, clock),
               outVariant |-> variantGenerateRandomMultiplier(gameId, clock)]
    /\ UNCHANGED <<clock, elapsed, prev, pairVars, hashVars, rngVars, appVars>>

NextVariant ==
    \/ TickWithinMinute
    \/ TickMinute
    \/ \E g \in GameIds : CallVariants(g)

SpecVariant == Init /\ [][NextVariant]_vars

\* C13 - Variant equivalence: the variant without the Manual / Auto boolean
\* returns the same RTP and the same multiplier value and type as the
\* variant with it; the only difference is the text field of the latter,
\* which is "Manual" iff getSeededRandomInt((epochMinute*1000 + hash)*11, 0, 1)
\* is 1 and "Auto" otherwise.
C13_VariantEquivalence ==
    cur.fn = "variants" =>
        /\ cur.rtpVariant = cur.rtp
        /\ cur.outVariant.value = cur.out.value
        /\ cur.outVariant.type = cur.out.type
        /\ DOMAIN cur.outVariant = {"value", "type"}
        /\ DOMAIN cur.out = {"value", "type", "text"}
        /\ cur.out.text =
              IF getSeededRandomInt(
                    NumMul(NumAdd(NumMul(NumOfInt(cur.timeSeed), 1000),
                                  stringToHash(cur.gameId)), 11), 0, 1) = 1
              THEN "Manual" ELSE "Auto"

\* both variants were called after a minute boundary, and the variant with
\* the text returned "Manual"
C13_Witness ==
    /\ cur.fn = "variants" /\ elapsed > 0
    /\ cur.out.text = "Manual"
    /\ cur.outVariant.value = cur.out.value

\* ------------------------------------------------------------------------
\* The page: loadAllGames, init, renderGameCards, the provider menu and the
\* auto-refresh timer
\* ------------------------------------------------------------------------
\* the UTF-16 code units of the provider and image names of the sample
CodeUnits ==
    [ name \in {"pg", "1.png", "pragmatic", "gates-of-olympus"} |->
        CASE name = "pg" -> <<112,103>>
          [] name = "1.png" -> <<49,46,112,110,103>>
          [] name = "pragmatic" -> <<112,114,97,103,109,97,116,105,99>>
          [] name = "gates-of-olympus" ->
                <<103,97,116,101,115,45,111,102,45,111,108,121,109,112,117,115>> ]

\* lines 152, 186: `${provider}/${imageName}`
gameId(provider, imageName) == CodeUnits[provider] \o <<47>> \o CodeUnits[imageName]

\* lines 157-163, 191-197: the object pushed; window.detectGamePriority is
\* not defined by this script, so priority is 4
makeGame(provider, imageName) ==
    [id |-> gameId(provider, imageName), provider |-> provider,
     imageName |-> imageName, priority |-> 4]

\* one entry of Object.entries(providers): a provider and its images;
\* images.forEach throws when images is not an array (iterable FALSE)
Entry(provider, images) == [provider |-> provider, images |-> images, iterable |-> TRUE]

BadEntry(provider) == [provider |-> provider, images |-> <<>>, iterable |-> FALSE]

RECURSIVE pushEntries(_, _)
\* lines 150-165, 184-199: the loop over the entries pushes onto games; the
\* result is the list when the loop ends or throws
pushEntries(games, entries) ==
    IF entries = <<>> THEN [games |-> games, threw |-> FALSE]
    ELSE IF ~Head(entries).iterable THEN [games |-> games, threw |-> TRUE]
    ELSE pushEntries(games \o [i \in 1 .. Len(Head(entries).images) |->
                                  makeGame(Head(entries).provider, Head(entries).images[i])],
                     Tail(entries))

\* what window.sortGamesByPopularity, which this script does not define, may
\* return for games: the same games in some order
Orderings(games) ==
    { [i \in 1 .. Len(games) |-> games[order[i]]] : order \in Permutations(1 .. Len(games)) }

\* lines 143-148: the outcome of the request
ApiThrows == [kind |-> "throws", providers |-> <<>>]

ApiNotOk == [kind |-> "notOk", providers |-> <<>>]

ApiListing(entries) == [kind |-> "listing", providers |-> entries]

\* line 183: window.PROVIDER_IMAGES
NoFallback == [present |-> FALSE, providers |-> <<>>]

FallbackListing(entries) == [present |-> TRUE, providers |-> entries]

\* lines 141-177: the try block; returned is TRUE when line 175 is reached
apiPath(api, hook) ==
    IF api.kind = "listing"
    THEN [games |-> pushEntries(<<>>, api.providers).games,
          returned |-> ~pushEntries(<<>>, api.providers).threw /\ hook # "throws"]
    ELSE [games |-> <<>>, returned |-> FALSE]

\* lines 183-210: the fallback pushes onto what allGames holds by then
fallbackPath(games, fallback, hook) ==
    IF fallback.present
    THEN [games |-> pushEntries(games, fallback.providers).games,
          source |-> IF pushEntries(games, fallback.providers).threw \/ hook = "throws"
                     THEN "rejected" ELSE "fallback"]
    ELSE [games |-> games, source |-> "none"]

\* lines 138-214: the list and the source loadAllGames ends with, before the
\* sort of lines 168-169 or 202-203
loadOutcome(tried, fallback, hook) ==
    IF tried.returned THEN [games |-> tried.games, source |-> "api"]
    ELSE fallbackPath(tried.games, fallback, hook)

\* the lists allGames may hold when loadAllGames ends
loadedLists(outcome, hook) ==
    IF hook = "present" /\ outcome.source \in {"api", "fallback"}
    THEN Orderings(outcome.games) ELSE { outcome.games }

\* loadAllGames(), awaited by init() before any listener or timer is set up
LoadAllGamesFrom(tried, outcome, api, fallback, hook) ==
    /\ page = "start"
    /\ allGames' \in loadedLists(outcome, hook)
    /\ page' = IF outcome.source = "rejected" THEN "crashed" ELSE "loaded"
    /\ discovery' = [fn |-> "loadAllGames", api |-> api.kind, source |-> outcome.source,
                     apiPushed |-> IF outcome.source = "api" THEN <<>> ELSE tried.games,
                     fallbackListed |-> pushEntries(<<>>, fallback.providers).games]
    /\ UNCHANGED <<currentProvider, showAllGames, grid, refreshTimers, renderCount,
                   clockVars, pairVars, hashVars, rngVars, carouselVars>>

LoadAllGamesTried(tried, api, fallback, hook) ==
    LoadAllGamesFrom(tried, loadOutcome(tried, fallback, hook), api, fallback, hook)

LoadAllGames(api, fallback, hook) ==
    LoadAllGamesTried(apiPath(api, hook), api, fallback, hook)

\* the listings of the sample
ListPg == Entry("pg", <<"1.png">>)

ListPragmatic == Entry("pragmatic", <<"gates-of-olympus">>)

ApiOutcomes ==
    { ApiThrows, ApiNotOk, ApiListing(<<>>), ApiListing(<<ListPg>>),
      ApiListing(<<ListPg, ListPragmatic>>),
      ApiListing(<<ListPragmatic>>), ApiListing(<<ListPragmatic, ListPg>>),
      ApiListing(<<ListPg, BadEntry("pragmatic")>>),
      ApiListing(<<ListPragmatic, BadEntry("pg")>>),
      ApiListing(<<ListPg, ListPragmatic, BadEntry("pg")>>),
      ApiListing(<<BadEntry("pg"), ListPragmatic>>) }

Fallbacks ==
    { NoFallback, FallbackListing(<<ListPg>>), FallbackListing(<<ListPragmatic>>),
      FallbackListing(<<ListPg, ListPragmatic>>),
      FallbackListing(<<ListPragmatic, ListPg>>),
      FallbackListing(<<ListPragmatic, BadEntry("pg")>>) }

SortHooks == { "absent", "present", "throws" }

InitLoad == ClockIdle /\ PairIdle /\ HashIdle /\ RngIdle /\ AppIdle

NextLoad ==
    \E api \in ApiOutcomes, fallback \in Fallbacks, hook \in SortHooks :
        LoadAllGames(api, fallback, hook)

SpecLoad == InitLoad /\ [][NextLoad]_vars

\* ------------------------------------------------------------------------
\* Rendering and the auto-refresh timer (SpecApp)
\* ------------------------------------------------------------------------
\* render passes after which the provider menu is not used any more
MaxRenders == 3

\* when the page is opened
AppStartTimes == { At(2024, 0, 15, 10, 30) }

\* the providers of the menu; "jili" has no game in the sample
MenuProviders == { "all", "pg", "pragmatic", "jili" }

\* the ids of the games of the sample
AppGameIds == { gameId("pg", "1.png"), gameId("pragmatic", "gates-of-olympus") }

RECURSIVE MinutesFrom(_, _)
\* the minutes the clock can show within n minute boundaries of those in T
MinutesFrom(T, n) ==
    IF n = 0 THEN T ELSE MinutesFrom(T \cup { NextMinute(t) : t \in T }, n - 1)

AppMinutes == MinutesFrom(AppStartTimes, MaxMinutes + 1)

\* the first instant of the minute of t
MinuteStart(t) == At(t.year, t.month, t.date, t.hours, t.minutes)

\* generateRandomRTP(id) and generateRandomMultiplier(id) called in each of
\* these minutes, computed once for each
rtpAt == [id \in AppGameIds |-> [t \in AppMinutes |-> generateRandomRTP(id, t)]]

multiplierAt == [id \in AppGameIds |-> [t \in AppMinutes |-> generateRandomMultiplier(id, t)]]

\* filterGamesByProvider without the filter
filterGamesByProvider_all(provider) == allGames

\* lines 219-225
filterGamesByProvider(provider) ==
    IF provider = "all" THEN allGames
    ELSE SelectSeq(allGames, LAMBDA game : game.provider = provider)

\* lines 240-275: the card; rtpWindow and multiplierWindow record the
\* getTimeSeed() value each generator read
makeCard(game, index, rtp, multiplier, rtpWindow, multiplierWindow) ==
    [id |-> game.id, provider |-> game.provider, index |-> index,
     rtp |-> rtp, multiplier |-> multiplier, colorClass |-> getRTPColorClass(rtp),
     rtpWindow |-> rtpWindow, multiplierWindow |-> multiplierWindow]

\* lines 234-276: generateRandomRTP reads the clock as readRTP, then
\* generateRandomMultiplier reads it as readMultiplier
createGameCard(game, index, readRTP, readMultiplier) ==
    makeCard(game, index,
             rtpAt[game.id][MinuteStart(readRTP)],
             multiplierAt[game.id][MinuteStart(readMultiplier)],
             getTimeSeed(readRTP), getTimeSeed(readMultiplier))

\* the n-th reading of the clock in a pass that starts at t, when the clock
\* reaches the next minute just before reading number cross (0: it does not)
ReadAt(t, n, cross) == IF cross > 0 /\ n >= cross THEN NextMinute(t) ELSE t

\* lines 297-301: the cards of one pass over games
renderedCards(games, t, cross) ==
    [i \in 1 .. Len(games) |->
        createGameCard(games[i], i - 1, ReadAt(t, 2 * i - 1, cross), ReadAt(t, 2 * i, cross))]

\* where the clock may reach the next minute in a pass over n cards
CrossPoints(n) == IF elapsed < MaxMinutes THEN 0 .. 2 * n ELSE { 0 }

\* lines 286-305: renderGameCards() with the filter set to provider; the
\* timeout of animateRTPBars only widens the bars and is left out
RenderGameCards(provider, cross) ==
    /\ cross \in CrossPoints(Len(filterGamesByProvider(provider)))
    /\ grid' = renderedCards(filterGamesByProvider(provider), clock, cross)
    /\ renderCount' = renderCount + 1
    /\ clock' = IF cross > 0 THEN NextMinute(clock) ELSE clock
    /\ elapsed' = IF cross > 0 THEN elapsed + 1 ELSE elapsed

\* getTimeUntilNextUpdate dropping the milliseconds
getTimeUntilNextUpdate_seconds(now) == (60 - now.seconds) * 1000

\* lines 520-529
getTimeUntilNextUpdate(now) == (60 - now.seconds) * 1000 - now.ms

RECURSIVE AdvanceMs(_, _)
\* line 537: the instant d milliseconds after t
AdvanceMs(t, d) ==
    IF t.seconds * 1000 + t.ms + d < 60000
    THEN [t EXCEPT !.seconds = (t.seconds * 1000 + t.ms + d) \div 1000,
                   !.ms = (t.seconds * 1000 + t.ms + d) % 1000]
    ELSE AdvanceMs(NextMinute(t), t.seconds * 1000 + t.ms + d - 60000)

\* instant a is earlier than instant b
Before(a, b) ==
    \/ CalendarOrder(a) < CalendarOrder(b)
    \/ /\ CalendarOrder(a) = CalendarOrder(b)
       /\ a.seconds * 1000 + a.ms < b.seconds * 1000 + b.ms

\* lines 536-545: when the timeout set at instant t is due
refreshDue(t) == AdvanceMs(t, getTimeUntilNextUpdate(t))

\* the sequence without its i-th element
RemoveAt(seq, i) == SubSeq(seq, 1, i - 1) \o SubSeq(seq, i + 1, Len(seq))

\* ------------------------------------------------------------------------
\* The banner carousel (setupCarousel)
\* ------------------------------------------------------------------------
\* slides the page may have
MaxSlides == 3

\* intervals the host runs at a time before no further one is started
MaxIntervals == 3

SlideCounts == 0 .. MaxSlides

\* the page may have fewer or more dots than slides
DotCounts == 0 .. MaxSlides + 1

\* line 485
swipeThreshold == 50

\* screenX of a touch: apart by less than, exactly and more than the threshold
TouchXs == { 0, swipeThreshold, 2 * swipeThreshold + 1 }

\* all of the page but the carousel's own state is left as it is
CarouselFrame ==
    UNCHANGED <<carousel, totalSlides, dotCount, allGames, currentProvider, showAllGames,
                grid, refreshTimers, renderCount, page, discovery,
                clockVars, pairVars, hashVars, rngVars>>

\* clearInterval(id): an id that names no running interval is ignored
clearInterval(id, active) == active \ { id }

\* the id setInterval returns: one the host has not in use; ids the script
\* no longer holds are given anew, which the script cannot tell from a
\* larger id
newIntervalId(active) ==
    CHOOSE n \in 1 .. MaxIntervals + 1 :
        /\ n \notin active \cup { autoSlideInterval }
        /\ \A k \in 1 .. n - 1 : k \in active \cup { autoSlideInterval }

\* lines 445-447 with the intervals in active running
startAutoSlideFrom(active) ==
    /\ Cardinality(active) < MaxIntervals
    /\ autoSlideInterval' = newIntervalId(active)
    /\ activeIntervals' = active \cup { newIntervalId(active) }

\* lines 445-447
startAutoSlide == startAutoSlideFrom(activeIntervals)

\* lines 450-453
resetAutoSlide == startAutoSlideFrom(clearInterval(autoSlideInterval, activeIntervals))

\* lines 427-429: the two tests are made one after the other
wrapSlide(index, total) ==
    LET below == IF index < 0 THEN total - 1 ELSE index
    IN  IF below >= total THEN 0 ELSE below

\* goToSlide that keeps the index it is given
goToSlide_noWrap(index) ==
    /\ currentSlide' = index
    /\ resetAutoSlide

\* lines 426-432; updateCarousel only moves the track and marks the dot
goToSlide(index) ==
    /\ currentSlide' = wrapSlide(index, totalSlides)
    /\ resetAutoSlide

\* lines 435-437
nextSlide == goToSlide(currentSlide + 1)

\* lines 440-442
prevSlide == goToSlide(currentSlide - 1)

\* lines 484-496
handleSwipe(startX, endX) ==
    LET diff == startX - endX
    IN  IF (IF diff < 0 THEN -diff ELSE diff) > swipeThreshold
        THEN IF diff > 0 THEN nextSlide ELSE prevSlide
        ELSE UNCHANGED <<currentSlide, autoSlideInterval, activeIntervals>>

\* lines 398-511: setupCarousel() on a page with that many slides and dots
setupCarousel(track, slides, dots) ==
    IF ~track \/ slides = 0
    THEN /\ carousel' = "absent"
         /\ UNCHANGED <<currentSlide, totalSlides, dotCount, autoSlideInterval,
                        activeIntervals, hovering, touching, touchStartX, touchEndX>>
    ELSE /\ carousel' = "ready"
         /\ currentSlide' = 0
         /\ totalSlides' = slides
         /\ dotCount' = dots
         /\ startAutoSlide
         /\ UNCHANGED <<hovering, touching, touchStartX, touchEndX>>

\* lines 456-458: a click on #nextBtn
NextClick ==
    /\ carousel = "ready"
    /\ nextSlide
    /\ UNCHANGED <<hovering, touching, touchStartX, touchEndX>>
    /\ CarouselFrame

\* lines 460-462: a click on #prevBtn
PrevClick ==
    /\ carousel = "ready"
    /\ prevSlide
    /\ UNCHANGED <<hovering, touching, touchStartX, touchEndX>>
    /\ CarouselFrame

\* lines 465-469: a click on the dot number index
DotClick(index) ==
    /\ carousel = "ready"
    /\ index \in 0 .. dotCount - 1
    /\ goToSlide(index)
    /\ UNCHANGED <<hovering, touching, touchStartX, touchEndX>>
    /\ CarouselFrame

\* lines 475-477: a touch starts on the track at screenX x
TouchStart(x) ==
    /\ carousel = "ready"
    /\ ~touching
    /\ touching' = TRUE
    /\ touchStartX' = x
    /\ UNCHANGED <<currentSlide, autoSlideInterval, activeIntervals, hovering, touchEndX>>
    /\ CarouselFrame

\* lines 479-482: the touch ends at screenX x
TouchEnd(x) ==
    /\ carousel = "ready"
    /\ touching
    /\ touching' = FALSE
    /\ touchEndX' = x
    /\ handleSwipe(touchStartX, x)
    /\ UNCHANGED <<hovering, touchStartX>>
    /\ CarouselFrame

\* lines 498-500: the pointer comes over the track
MouseEnter ==
    /\ carousel = "ready"
    /\ ~hovering
    /\ hovering' = TRUE
    /\ activeIntervals' = clearInterval(autoSlideInterval, activeIntervals)
    /\ UNCHANGED <<currentSlide, autoSlideInterval, touching, touchStartX, touchEndX>>
    /\ CarouselFrame

\* lines 502-504: the pointer leaves the track
MouseLeave ==
    /\ carousel = "ready"
    /\ hovering
    /\ hovering' = FALSE
    /\ startAutoSlide
    /\ UNCHANGED <<currentSlide, touching, touchStartX, touchEndX>>
    /\ CarouselFrame

\* line 446: the running interval id calls nextSlide
AutoSlide(id) ==
    /\ carousel = "ready"
    /\ id \in activeIntervals
    /\ nextSlide
    /\ UNCHANGED <<hovering, touching, touchStartX, touchEndX>>
    /\ CarouselFrame

\* lines 704-719: init() after loadAllGames: without games it stops, else
\* it sets up the carousel and the listeners, renders and calls
\* setupAutoRefresh()
PageInitWith(cross, track, slides, dots) ==
    /\ page = "loaded"
    /\ IF allGames = <<>>
       THEN /\ page' = "failed"
            /\ UNCHANGED <<grid, renderCount, clock, elapsed, refreshTimers, carouselVars>>
       ELSE /\ setupCarousel(track, slides, dots)
            /\ RenderGameCards(currentProvider, cross)
            /\ refreshTimers' = Append(refreshTimers, refreshDue(clock'))
            /\ page' = "ready"
    /\ UNCHANGED <<allGames, currentProvider, showAllGames, discovery,
                   prev, cur, pairVars, hashVars, rngVars>>

\* init() on the page of the sample, whose carousel has as many dots as slides
PageInit(cross) == PageInitWith(cross, TRUE, MaxSlides, MaxSlides)

\* lines 541-545: the i-th timeout is due and runs: renderGameCards(), then
\* scheduleNextRefresh()
RefreshFire(i, cross) ==
    /\ page = "ready"
    /\ i \in DOMAIN refreshTimers
    /\ ~Before(clock, refreshTimers[i])
    /\ RenderGameCards(currentProvider, cross)
    /\ refreshTimers' = Append(RemoveAt(refreshTimers, i), refreshDue(clock'))
    /\ UNCHANGED <<allGames, currentProvider, showAllGames, page, discovery,
                   prev, cur, pairVars, hashVars, rngVars, carouselVars>>

\* SelectProvider when the handler also starts a refresh chain
SelectProvider_rearms(provider, cross) ==
    /\ page = "ready"
    /\ renderCount < MaxRenders
    /\ currentProvider' = provider
    /\ showAllGames' = TRUE
    /\ RenderGameCards(provider, cross)
    /\ refreshTimers' = Append(refreshTimers, refreshDue(clock'))
    /\ UNCHANGED <<allGames, page, discovery, prev, cur, pairVars, hashVars, rngVars,
                   carouselVars>>

\* lines 351-384: a click on the menu item of provider
SelectProvider(provider, cross) ==
    /\ page = "ready"
    /\ renderCount < MaxRenders
    /\ currentProvider' = provider
    /\ showAllGames' = TRUE
    /\ RenderGameCards(provider, cross)
    /\ UNCHANGED <<allGames, refreshTimers, page, discovery,
                   prev, cur, pairVars, hashVars, rngVars, carouselVars>>

InitApp ==
    /\ clock \in AppStartTimes
    /\ elapsed = 0
    /\ prev = NoCall
    /\ cur = NoCall
    /\ PairIdle /\ HashIdle /\ RngIdle /\ AppIdle

NextApp ==
    \/ \E api \in { ApiThrows, ApiListing(<<ListPg, ListPragmatic>>) } :
          LoadAllGames(api, NoFallback, "absent")
    \/ \E cross \in 0 .. 4 : PageInit(cross)
    \/ TickWithinMinute
    \/ TickMinute
    \/ \E i \in 1 .. 2, cross \in 0 .. 4 : RefreshFire(i, cross)
    \/ \E provider \in MenuProviders, cross \in 0 .. 4 : SelectProvider(provider, cross)

SpecApp == InitApp /\ [][NextApp]_vars

\* ------------------------------------------------------------------------
\* The utility functions called between the events of the page (SpecFrame)
\* ------------------------------------------------------------------------
\* the page is opened, and stringToHash("pg") has just been entered
InitFrame ==
    /\ clock \in AppStartTimes
    /\ elapsed = 0
    /\ prev = NoCall
    /\ cur = NoCall
    /\ hashStr = CodeUnits["pg"] /\ hashI = 0 /\ hashAcc = NumOfInt(0)
    /\ hashRet = <<>> /\ hashPrev = NoCall
    /\ PairIdle /\ RngIdle /\ AppIdle

NextFrame ==
    \/ LoadAllGames(ApiListing(<<ListPg, ListPragmatic>>), NoFallback, "absent")
    \/ PageInit(0)
    \/ \E provider \in {"all", "pg"} : SelectProvider(provider, 0)
    \/ CallGetTimeSeed
    \/ CallRTP(gameId("pg", "1.png"))
    \/ CallMultiplier(gameId("pg", "1.png"))
    \/ HashIterate
    \/ HashExit
    \/ HashCallAgain(CodeUnits["pg"])
    \/ CallSeededRandom(12345)
    \/ CallGetSeededRandomInt(NumOfInt(12345), CONFIG.rtpRanges.min, CONFIG.rtpRanges.max)
    \/ CallGetRTPColorClass(70)

SpecFrame == InitFrame /\ [][NextFrame]_vars

\* a step of one of the seven utility functions
UtilityStep ==
    cur' # cur \/ prev' # prev \/ probe' # probe \/ hashVars' # hashVars

\* C14 - Side-effect freedom: a call of getTimeSeed, stringToHash,
\* seededRandom, getSeededRandomInt, generateRandomRTP,
\* generateRandomMultiplier or getRTPColorClass, in any interleaving with the
\* events of the page, leaves allGames, currentProvider and showAllGames
\* unchanged (CONFIG is never assigned by any statement).
C14_SideEffectFree ==
    [][UtilityStep => UNCHANGED <<allGames, currentProvider, showAllGames>>]_vars

\* the utility functions were called after the page had loaded its games and
\* the provider "pg" had been selected
C14_Witness ==
    /\ page = "ready" /\ currentProvider = "pg" /\ allGames # <<>>
    /\ prev.fn = "rtp" /\ cur.fn = "multiplier"
    /\ probe.fn = "getRTPColorClass" /\ hashRet # <<>>

\* ------------------------------------------------------------------------
\* getTimeUntilNextUpdate called directly (SpecDelay)
\* ------------------------------------------------------------------------
\* the instants the clock is read at: in the minutes before and at every kind
\* of roll-over, at the first, second, middle and last second and millisecond
DelayReadings ==
    { [t EXCEPT !.seconds = s, !.ms = ms] :
        t \in SeedStartTimes \cup { NextMinute(start) : start \in SeedStartTimes },
        s \in {0, 1, 30, 59}, ms \in {0, 1, 500, 999} }

InitDelay ==
    /\ clock \in DelayReadings
    /\ elapsed = 0
    /\ prev = NoCall
    /\ cur = NoCall
    /\ PairIdle /\ HashIdle /\ RngIdle /\ AppIdle

\* lines 536-537: getTimeUntilNextUpdate() and the instant it leads to
CallGetTimeUntilNextUpdate ==
    /\ probe' = [fn |-> "getTimeUntilNextUpdate", at |-> clock,
                 out |-> getTimeUntilNextUpdate(clock), next |-> refreshDue(clock)]
    /\ UNCHANGED <<clockVars, pairVars, hashVars, appVars>>

NextDelay == CallGetTimeUntilNextUpdate

SpecDelay == InitDelay /\ [][NextDelay]_vars

\* C15 - Refresh delay: at seconds s and milliseconds ms,
\* getTimeUntilNextUpdate returns 60000 - (s*1000 + ms); the delay is in
\* 1 .. 60000, and the instant that much later is second 0, millisecond 0 of
\* the next minute.
C15_RefreshDelay ==
    probe.fn = "getTimeUntilNextUpdate" =>
        /\ probe.out = 60000 - (probe.at.seconds * 1000 + probe.at.ms)
        /\ probe.out \in 1 .. 60000
        /\ probe.next = NextMinute(probe.at)

\* the delay was computed in the last millisecond of a year
C15_Witness ==
    /\ probe.fn = "getTimeUntilNextUpdate" /\ probe.out = 1
    /\ probe.at.month = 11 /\ probe.at.date = 31 /\ probe.at.hours = 23
    /\ probe.at.minutes = 59 /\ probe.next.year = probe.at.year + 1

\* ------------------------------------------------------------------------
\* The truncation in stringToHash (SpecHash)
\* ------------------------------------------------------------------------
RECURSIVE Untruncated(_, _)
\* the recurrence hash*31 + charCode over the first n characters of str in
\* integers of any size
Untruncated(str, n) ==
    IF n = 0 THEN <<>> ELSE BigMulAdd(Untruncated(str, n - 1), 31, str[n])

\* x is in -2^31 .. 2^31-1
InInt32(x) ==
    IF x.neg THEN ~BigLess(<<0, 32768>>, x.mag) ELSE BigLess(x.mag, <<0, 32768>>)

\* C16 - 32-bit truncation: after every character step of stringToHash the
\* accumulator is an integer in -2^31 .. 2^31-1, the value of the
\* un-truncated recurrence reduced modulo 2^32 into that range, whatever the
\* length of the string.
C16_Truncation32 ==
    /\ InInt32(hashAcc)
    /\ hashAcc = Int32Value(ToWord(Untruncated(hashStr, hashI)))

\* the loop is inside a game id, the un-truncated value has left the 32-bit
\* range and the accumulator is negative
C16_Witness ==
    /\ hashRet = <<>> /\ hashI < Len(hashStr)
    /\ Len(Untruncated(hashStr, hashI)) > 4
    /\ hashAcc.neg

\* ------------------------------------------------------------------------
\* Properties of the render pass and of the refresh timer (SpecApp)
\* ------------------------------------------------------------------------
\* C17 - Render-pass time consistency: in one renderGameCards pass, even if
\* the clock crosses a minute boundary while the pass is running, the RTP and
\* the multiplier of each card are computed from the same epoch minute, and
\* all cards of the pass use that same epoch minute.
C17_RenderPassConsistency ==
    \A i \in DOMAIN grid :
        /\ grid[i].rtpWindow = grid[i].multiplierWindow
        /\ grid[i].rtpWindow = grid[1].rtpWindow

\* ------------------------------------------------------------------------
\* The intermediate of the linear-congruential step (SpecRng)
\* ------------------------------------------------------------------------
\* 2^53
TwoTo53 == <<0, 0, 0, 32>>

\* the smallest combined seed of a clock in 2024 or later: 2024 * 525600 * 1000
FirstRealSeed == BigMulAdd(BigOfInt(2024 * 525600), 1000, 0)

\* C18 - Exact intermediate arithmetic: for every combined seed reachable
\* from a real clock (year >= 2024), also times 7 and times 11, the
\* intermediate seed*9301 + 49297 of getSeededRandomInt stays below 2^53, so
\* the number the code computes is the exact integer.
C18_ExactIntermediate ==
    (probe.fn = "getSeededRandomInt" /\ ~BigLess(probe.seed.mag, FirstRealSeed)) =>
        /\ BigLess(BigMulAdd(probe.seed.mag, 9301, 49297), TwoTo53)
        /\ NumAdd(NumMul(probe.seed, 9301), NumOfInt(49297)).mag
              = BigMulAdd(probe.seed.mag, 9301, 49297)

\* C19 - Single refresh timer: after setupAutoRefresh has run, exactly one
\* auto-refresh timer is pending in every state; a firing makes exactly one
\* render pass and leaves exactly one timer armed, and a render started by a
\* provider selection neither cancels nor adds a refresh timer.
C19_SingleRefreshTimer ==
    /\ [](page = "ready" => Len(refreshTimers) = 1)
    /\ [][(page = "ready" /\ refreshTimers' # refreshTimers) =>
            (renderCount' = renderCount + 1 /\ Len(refreshTimers') = 1)]_vars
    /\ [][currentProvider' # currentProvider =>
            (renderCount' = renderCount + 1 /\ refreshTimers' = refreshTimers)]_vars

\* the timer set by init for 10:31 has fired and the one for 10:32 is
\* pending, and the provider "pg" has been selected
C19_Witness ==
    /\ page = "ready" /\ currentProvider = "pg" /\ renderCount >= 3
    /\ Len(refreshTimers) = 1 /\ refreshTimers[1].minutes = 32

\* the ids of games, in the order of the list
idsOf(games) == [i \in DOMAIN games |-> games[i].id]

NoDuplicates(list) == \A i, j \in DOMAIN list : list[i] = list[j] => i = j

\* C20 - Single discovery source: when loadAllGames returns, no game id
\* occurs twice in allGames; when the list comes from the PROVIDER_IMAGES
\* fallback it holds the games of PROVIDER_IMAGES and nothing else, whatever
\* the get_images.php path had pushed before it threw, and when it comes from
\* get_images.php nothing of an abandoned attempt is in it.
C20_SingleSource ==
    (discovery # NoCall /\ page = "loaded") =>
        /\ NoDuplicates(idsOf(allGames))
        /\ discovery.source = "fallback" =>
              /\ Len(allGames) = Len(discovery.fallbackListed)
              /\ \A i \in DOMAIN allGames :
                    \E j \in DOMAIN discovery.fallbackListed :
                        allGames[i] = discovery.fallbackListed[j]

\* ------------------------------------------------------------------------
\* The carousel under clicks, swipes, the pointer and its intervals
\* (SpecCarousel)
\* ------------------------------------------------------------------------
NextCarousel ==
    \/ LoadAllGames(ApiListing(<<ListPg>>), NoFallback, "absent")
    \/ \E track \in BOOLEAN, slides \in SlideCounts, dots \in DotCounts :
          PageInitWith(0, track, slides, dots)
    \/ NextClick
    \/ PrevClick
    \/ \E index \in 0 .. MaxSlides : DotClick(index)
    \/ \E x \in TouchXs : TouchStart(x)
    \/ \E x \in TouchXs : TouchEnd(x)
    \/ MouseEnter
    \/ MouseLeave
    \/ \E id \in 1 .. MaxIntervals + 1 : AutoSlide(id)

SpecCarousel == InitApp /\ [][NextCarousel]_vars

\* C21 - Single carousel interval: once the carousel is set up, at most one
\* interval of nextSlide is running, and none is running while the pointer
\* is over the track.
C21_SingleInterval ==
    carousel = "ready" =>
        /\ Cardinality(activeIntervals) <= 1
        /\ hovering => activeIntervals = {}

\* C24 - Carousel index bounds: with at least one slide, currentSlide stays
\* in 0 .. totalSlides - 1 under every event; a step to the next slide from
\* the last one goes to 0 and a step to the previous slide from slide 0 goes
\* to the last one.
C24_IndexBounds ==
    /\ [](carousel = "ready" => (totalSlides >= 1 /\ currentSlide \in 0 .. totalSlides - 1))
    /\ [][(NextClick \/ \E id \in activeIntervals : AutoSlide(id)) =>
            currentSlide' = IF currentSlide = totalSlides - 1 THEN 0 ELSE currentSlide + 1]_vars
    /\ [][PrevClick =>
            currentSlide' = IF currentSlide = 0 THEN totalSlides - 1 ELSE currentSlide - 1]_vars

\* a step to the previous slide has wrapped from slide 0 to the last of
\* three slides, after a swipe to the right
C24_Witness ==
    /\ carousel = "ready" /\ totalSlides = MaxSlides /\ currentSlide = totalSlides - 1
    /\ touchStartX = 0 /\ touchEndX = 2 * swipeThreshold + 1 /\ ~touching

RECURSIVE Matching(_, _)
\* the games of the list whose provider is the one selected, in list order
Matching(games, provider) ==
    IF games = <<>> THEN <<>>
    ELSE (IF provider = "all" \/ Head(games).provider = provider
          THEN <<Head(games)>> ELSE <<>>) \o Matching(Tail(games), provider)

CallGeneratorsFrom(forGame, seed) ==
    /\ cur' = [fn |-> "generators", gameId |-> forGame, at |-> clock,
               given |-> << seed, NumMul(seed, 7), NumMul(seed, 11) >>,
               handed |-> << scrambledSeed(seed), scrambledSeed(NumMul(seed, 7)),
                             scrambledSeed(NumMul(seed, 11)) >>]
    /\ UNCHANGED <<clock, elapsed, prev, pairVars, hashVars, rngVars, appVars>>

CallGenerators(forGame) ==
    CallGeneratorsFrom(forGame, combinedSeed(getTimeSeed(clock), gameHash[forGame]))

NextScramble ==
    \/ TickWithinMinute
    \/ TickMinute
    \/ \E g \in GameIds : CallGenerators(g)

SpecScramble == Init /\ [][NextScramble]_vars

\* C23 - Scrambled seed range: every seed generateRandomRTP and
\* generateRandomMultiplier pass to getSeededRandomInt is non-negative, and
\* the value getSeededRandomInt hands to seededRandom is an integer in
\* 0 .. 233279, on which seed | 0 and Math.abs are the identity, so that
\* seededRandom is called on at most 233280 values.
C23_ScrambledRange ==
    cur.fn = "generators" =>
        \A k \in 1 .. 3 :
            /\ ~cur.given[k].neg
            /\ cur.handed[k] \in 0 .. 233279
            /\ Int32Value(ToInt32(NumOfInt(cur.handed[k]))) = NumOfInt(cur.handed[k])
            /\ MathAbs(NumOfInt(cur.handed[k])) = NumOfInt(cur.handed[k])
            /\ seededRandom(cur.handed[k]) = seededRandom_signed(cur.handed[k])

\* the generators ran for "pragmatic/gates-of-olympus" on 15 January 2024 at
\* 10:30: the RTP seed 1063929634361 is handed on as 194236
C23_Witness ==
    /\ cur.fn = "generators" /\ cur.gameId = Id_gates
    /\ cur.at.year = 2024 /\ cur.at.month = 0 /\ cur.at.date = 15
    /\ cur.at.hours = 10 /\ cur.at.minutes = 30
    /\ cur.handed[1] = 194236

====
